---- MODULE Spec2Model ----
(***************************************************************************)
(* agent-memory: the SQLite-backed store of versioned memories             *)
(* (internal/store) with its retrieval engine (Search), its context        *)
(* assembler (Context), its links and the chunker that feeds the index.    *)
(*                                                                         *)
(* Text is a sequence of one-character strings, so that trimming, line     *)
(* counting, tokenising and substring matching are computed, not assumed.  *)
(* Timestamps are whole seconds (the code formats them as RFC3339, which   *)
(* has second resolution and orders lexicographically like the instant).   *)
(***************************************************************************)
EXTENDS Integers, Sequences, FiniteSets, TLC

VARIABLES
    memories,      \* rows of table memories
    chunks,        \* rows of table chunks (FTS index follows it by trigger)
    memory_links,  \* rows of table memory_links
    nextID,        \* ids handed out so far (newID is unique per call)
    now,           \* the wall clock, in seconds
    nputs,         \* history: how many Puts have succeeded
    hist,          \* history: per (ns,key), the successful Puts and Rms so far
    ret,           \* what the last operation returned to its caller
    keepRet,       \* whether the caller holds on to what operations return
    pending        \* the Rm calls between their SELECT and their UPDATE

vars == <<memories, chunks, memory_links, nextID, now, nputs, hist, ret, keepRet, pending>>
store == <<memories, chunks, memory_links>>

(***************************************************************************)
(* Bounds of the model.                                                    *)
(***************************************************************************)
MaxPuts == 2        \* Put succeeds at most this many times
MaxTime == 2        \* the clock stops advancing here
MaxAccess == 2      \* Get stops counting accesses of one row here

(***************************************************************************)
(* SQL NULL / Go zero value of a nullable column.                          *)
(***************************************************************************)
NULL == 0

\* chunks.embedding IS NULL
NoEmbedding == <<>>

(***************************************************************************)
(* Generic helpers.                                                        *)
(***************************************************************************)
Range(s) == {s[i] : i \in 1..Len(s)}

Max(S) == CHOOSE x \in S : \A y \in S : y <= x

Take(s, n) == SubSeq(s, 1, IF n < Len(s) THEN n ELSE Len(s))

\* All orderings of the finite set S in which rank never increases: the
\* outcomes of ORDER BY rank DESC (SQLite) or of an unstable sort.Slice (Go),
\* neither of which fixes the order of ties.
RECURSIVE OrdersDesc(_, _)
OrdersDesc(S, rank) ==
    IF S = {} THEN {<<>>}
    ELSE UNION {{<<x>> \o t : t \in OrdersDesc(S \ {x}, rank)} :
                  x \in {y \in S : \A z \in S : rank[z] <= rank[y]}}

\* The sequences of s's elements in an order sort.Slice can leave them in.
SortDesc(s, rank) == OrdersDesc(Range(s), rank)

(***************************************************************************)
(* Text: strings.TrimSpace, strings.Count(_, "\n"), strings.Fields,        *)
(* strings.Split(_, "\n"), and SQL LIKE '%q%'.                             *)
(***************************************************************************)
IsSpace(c) == c \in {" ", "\n", "\t"}

\* the positions of t that hold no space
NonSpaces(t) == {i \in 1..Len(t) : ~IsSpace(t[i])}

Min(S) == CHOOSE x \in S : \A y \in S : x <= y

TrimLeft(t) ==
    IF NonSpaces(t) = {} THEN <<>> ELSE SubSeq(t, Min(NonSpaces(t)), Len(t))

TrimRight(t) ==
    IF NonSpaces(t) = {} THEN <<>> ELSE SubSeq(t, 1, Max(NonSpaces(t)))

TrimSpace(t) == TrimRight(TrimLeft(t))

CountNewlines(t) == Cardinality({i \in 1..Len(t) : t[i] = "\n"})

\* the k-th smallest element of a finite set of integers
Nth(S, k) == CHOOSE x \in S : Cardinality({y \in S : y < x}) = k - 1

\* strings.Fields: the maximal runs of non-space characters, in order.
Fields(t) ==
    LET starts == {i \in NonSpaces(t) : i = 1 \/ IsSpace(t[i - 1])}
        ends == {i \in NonSpaces(t) : i = Len(t) \/ IsSpace(t[i + 1])}
    IN  [k \in 1..Cardinality(starts) |-> SubSeq(t, Nth(starts, k), Nth(ends, k))]

\* q occurs in t as a contiguous run: t LIKE '%q%'.
Contains(t, q) ==
    \E i \in 0..(Len(t) - Len(q)) : \A j \in 1..Len(q) : t[i + j] = q[j]

Rep(c, n) == [i \in 1..n |-> c]

\* strings.Split(t, "\n")
SplitLines(t) ==
    LET cuts == {i \in 1..Len(t) : t[i] = "\n"} \cup {0, Len(t) + 1}
    IN  [k \in 1..(Cardinality(cuts) - 1) |->
            SubSeq(t, Nth(cuts, k) + 1, Nth(cuts, k + 1) - 1)]

\* strings.Join(ls, "\n")
RECURSIVE JoinLines(_)
JoinLines(ls) ==
    IF ls = <<>> THEN <<>>
    ELSE IF Len(ls) = 1 THEN ls[1]
         ELSE ls[1] \o <<"\n">> \o JoinLines(Tail(ls))

HasPrefix(t, c) == Len(t) > 0 /\ t[1] = c

(***************************************************************************)
(* The chunker (package chunker).                                          *)
(***************************************************************************)
DefaultTargetSize == 400
DefaultMinSize == 100
DefaultMaxSize == 600

DefaultOptions ==
    [TargetSize |-> DefaultTargetSize, MinSize |-> DefaultMinSize,
     MaxSize |-> DefaultMaxSize]

ChunkResult(t, s, e) == [Text |-> t, StartLine |-> s, EndLine |-> e]

\* flush of splitBlocks, on the loop state st = [blocks, current, startLine, prevEmpty]
flush(st, endLine) ==
    IF st.current = <<>> THEN st
    ELSE LET t == TrimSpace(JoinLines(st.current))
         IN  [st EXCEPT
                !.blocks = IF t # <<>>
                           THEN Append(@, [text |-> t, startLine |-> st.startLine,
                                           endLine |-> endLine])
                           ELSE @,
                !.current = <<>>,
                !.startLine = endLine + 1]

RECURSIVE splitLoop(_, _, _)
splitLoop(lines, i, st) ==
    IF i > Len(lines) THEN flush(st, Len(lines))
    ELSE LET line == lines[i]
             trimmed == TrimSpace(line)
             s1 == IF HasPrefix(trimmed, "#") /\ st.current # <<>>
                   THEN flush(st, i - 1) ELSE st
         IN  IF trimmed = <<>>
             THEN LET s2 == IF s1.prevEmpty /\ s1.current # <<>>
                            THEN flush(s1, i - 1) ELSE s1
                  IN  splitLoop(lines, i + 1,
                          [s2 EXCEPT !.prevEmpty = TRUE, !.current = Append(@, line)])
             ELSE splitLoop(lines, i + 1,
                          [s1 EXCEPT !.prevEmpty = FALSE, !.current = Append(@, line)])

splitBlocks(text) ==
    splitLoop(SplitLines(text), 1,
              [blocks |-> <<>>, current |-> <<>>, startLine |-> 1,
               prevEmpty |-> FALSE]).blocks

RECURSIVE hardLoop(_, _, _, _, _)
hardLoop(lines, startLine, opts, i, st) ==
    IF i > Len(lines)
    THEN IF st.current # <<>>
         THEN LET t == TrimSpace(JoinLines(st.current))
              IN  IF t # <<>>
                  THEN Append(st.results,
                              ChunkResult(t, st.curStart, startLine + Len(lines) - 1))
                  ELSE st.results
         ELSE st.results
    ELSE LET line == lines[i]
             lineLen == Len(line)
             \* i is one-based here, the code's loop index is i - 1
             s1 == IF st.curLen + lineLen > opts.TargetSize /\ st.current # <<>>
                   THEN LET t == TrimSpace(JoinLines(st.current))
                        IN  [results |-> IF t # <<>>
                                         THEN Append(st.results,
                                                ChunkResult(t, st.curStart,
                                                            startLine + (i - 1) - 1))
                                         ELSE st.results,
                             current |-> <<>>,
                             curStart |-> startLine + (i - 1),
                             curLen |-> 0]
                   ELSE st
         IN  hardLoop(lines, startLine, opts, i + 1,
                      [s1 EXCEPT !.current = Append(@, line),
                                 !.curLen = @ + lineLen + 1])

\* (variant: the text is cut every TargetSize characters, lines or not)
hardSplitByChars(text, startLine, opts) ==
    [k \in 1..((Len(text) + opts.TargetSize - 1) \div opts.TargetSize) |->
        ChunkResult(SubSeq(text, (k - 1) * opts.TargetSize + 1,
                           Min({k * opts.TargetSize, Len(text)})),
                    startLine, startLine)]

hardSplit(text, startLine, opts) ==
    hardLoop(SplitLines(text), startLine, opts, 1,
             [results |-> <<>>, current |-> <<>>, curStart |-> startLine,
              curLen |-> 0])

emptyBlock == [text |-> <<>>, startLine |-> 0, endLine |-> 0]

\* flushAccum of mergeBlocks, on the loop state st = [results, accum]
flushAccum(st, opts) ==
    LET t == TrimSpace(st.accum.text)
    IN  IF t = <<>> THEN st
        ELSE [results |->
                IF Len(t) > opts.MaxSize
                THEN st.results \o hardSplit(t, st.accum.startLine, opts)
                ELSE Append(st.results,
                            ChunkResult(t, st.accum.startLine,
                                        st.accum.startLine + CountNewlines(t))),
              accum |-> emptyBlock]

RECURSIVE mergeLoop(_, _, _, _)
mergeLoop(blocks, opts, i, st) ==
    IF i > Len(blocks) THEN flushAccum(st, opts).results
    ELSE LET b == blocks[i]
         IN  IF st.accum.text = <<>>
             THEN mergeLoop(blocks, opts, i + 1, [st EXCEPT !.accum = b])
             ELSE LET combined == st.accum.text \o <<"\n", "\n">> \o b.text
                  IN  IF Len(combined) <= opts.TargetSize
                      THEN mergeLoop(blocks, opts, i + 1,
                               [st EXCEPT !.accum.text = combined,
                                          !.accum.endLine = b.endLine])
                      ELSE mergeLoop(blocks, opts, i + 1,
                               [flushAccum(st, opts) EXCEPT !.accum = b])

mergeBlocks(blocks, opts) ==
    mergeLoop(blocks, opts, 1, [results |-> <<>>, accum |-> emptyBlock])

\* (variant: the short text is returned as given, untrimmed)
ChunkUntrimmed(text0, opts0) ==
    LET opts == IF opts0.TargetSize = 0 THEN DefaultOptions ELSE opts0
        text == TrimSpace(text0)
    IN  IF Len(text) = 0 THEN <<>>
        ELSE IF Len(text) <= opts.MaxSize
             THEN <<ChunkResult(text0, 1, CountNewlines(text0) + 1)>>
             ELSE mergeBlocks(splitBlocks(text), opts)

Chunk(text0, opts0) ==
    LET opts == IF opts0.TargetSize = 0 THEN DefaultOptions ELSE opts0
        text == TrimSpace(text0)
    IN  IF Len(text) = 0 THEN <<>>
        ELSE IF Len(text) <= opts.MaxSize
             THEN <<ChunkResult(text, 1, CountNewlines(text) + 1)>>
             ELSE mergeBlocks(splitBlocks(text), opts)

(***************************************************************************)
(* The tables.                                                             *)
(***************************************************************************)
SlotOf(m) == <<m.ns, m.key>>

RowsOf(ns, key) == {m \in memories : m.ns = ns /\ m.key = key}

\* (variant: deleted_at not tested)
LiveOrDeleted(ns, key) == {m \in memories : m.ns = ns /\ m.key = key}

\* WHERE ns = ? AND key = ? AND deleted_at IS NULL
LiveOf(ns, key) == {m \in RowsOf(ns, key) : m.deleted_at = NULL}

\* ... ORDER BY version DESC LIMIT 1: the rows the statement can return
\* (none when no row qualifies).
LatestLive(ns, key) ==
    {m \in LiveOf(ns, key) : \A r \in LiveOf(ns, key) : r.version <= m.version}

\* (expires_at IS NULL OR expires_at > now)
NotExpired(m) == m.expires_at = NULL \/ m.expires_at > now

\* (variant: the expiry test left out)
VisibleUnexpiring(m) == m.deleted_at = NULL

\* m.deleted_at IS NULL AND (m.expires_at IS NULL OR m.expires_at > ?)
Visible(m) == m.deleted_at = NULL /\ NotExpired(m)

\* INNER JOIN (SELECT ns, key, MAX(version) AS max_ver FROM memories
\*             WHERE deleted_at IS NULL GROUP BY ns, key) latest
\*   ON m.ns = latest.ns AND m.key = latest.key AND m.version = latest.max_ver
\* (variant: every non-deleted version joins, not only the latest)
JoinEveryLive(m) == m \in LiveOf(m.ns, m.key)

JoinLatest(m) ==
    /\ LiveOf(m.ns, m.key) # {}
    /\ m.version = Max({r.version : r \in LiveOf(m.ns, m.key)})

ChunksOf(id) == {c \in chunks : c.memory_id = id}

\* FOREIGN KEY (memory_id / from_id / to_id) REFERENCES memories(id), with
\* foreign_keys(on): a row of memories that is still referenced cannot go.
Referenced(id) ==
    \/ \E c \in chunks : c.memory_id = id
    \/ \E l \in memory_links : l.from_id = id \/ l.to_id = id

(***************************************************************************)
(* parseTTL: ^(\d+)([dhms])$ on the TTL strings the model uses.            *)
(***************************************************************************)
parseTTL(s) ==
    CASE s = "1s" -> [ok |-> TRUE, d |-> 1]
      [] s = "2s" -> [ok |-> TRUE, d |-> 2]
      [] OTHER    -> [ok |-> FALSE, d |-> 0]

(***************************************************************************)
(* Put.                                                                    *)
(***************************************************************************)
NoRet == [op |-> "none", p |-> <<>>, err |-> FALSE, out |-> <<>>]

Ret(op, p, err, out) ==
    IF keepRet THEN [op |-> op, p |-> p, err |-> err, out |-> out] ELSE NoRet


\* (variant: the previous version looked up among all rows, deleted or not)
PutRowAfterAny(p, id) ==
    LET prev == {m \in RowsOf(p.NS, p.Key) :
                    \A r \in RowsOf(p.NS, p.Key) : r.version <= m.version}
        prevRow == CHOOSE m \in prev : TRUE
    IN  [id |-> id, ns |-> p.NS, key |-> p.Key, content |-> p.Content,
         kind |-> IF p.Kind = "" THEN "semantic" ELSE p.Kind,
         tags |-> p.Tags,
         version |-> IF prev # {} THEN prevRow.version + 1 ELSE 1,
         supersedes |-> IF prev # {} THEN prevRow.id ELSE NULL,
         created_at |-> now,
         deleted_at |-> NULL,
         priority |-> IF p.Priority = "" THEN "normal" ELSE p.Priority,
         access_count |-> 0,
         expires_at |-> IF p.TTL # "" THEN now + parseTTL(p.TTL).d ELSE NULL]

\* The rows the transaction of Put inserts: the memory row and its chunks.
PutRow(p, id) ==
    LET prev == LatestLive(p.NS, p.Key)
        prevRow == CHOOSE m \in prev : TRUE
    IN  [id |-> id, ns |-> p.NS, key |-> p.Key, content |-> p.Content,
         kind |-> IF p.Kind = "" THEN "semantic" ELSE p.Kind,
         tags |-> p.Tags,
         version |-> IF prev # {} THEN prevRow.version + 1 ELSE 1,
         supersedes |-> IF prev # {} THEN prevRow.id ELSE NULL,
         created_at |-> now,
         deleted_at |-> NULL,
         priority |-> IF p.Priority = "" THEN "normal" ELSE p.Priority,
         access_count |-> 0,
         expires_at |-> IF p.TTL # "" THEN now + parseTTL(p.TTL).d ELSE NULL]

PutChunks(p, id) ==
    LET cs == Chunk(p.Content, DefaultOptions)
    IN  {[id |-> id + i, memory_id |-> id, seq |-> i - 1, text |-> cs[i].Text,
          start_line |-> cs[i].StartLine, end_line |-> cs[i].EndLine,
          embedding |-> NoEmbedding] : i \in 1..Len(cs)}

(***************************************************************************)
(* The (ns,key) slots and the inputs the operations are called with.       *)
(***************************************************************************)
KeyG == <<"g">>
KeyH == <<"h">>
Slots == {<<"t", KeyG>>, <<"o", KeyH>>}

TextAB == <<"a", " ", "b">>       \* "a b"
TextBA == <<"b", " ", "a">>       \* "b a"
TextABC == <<"a", " ", "b", "c">> \* "a bc"

PutParams(ns, key, content, kind, tags, priority, ttl) ==
    [NS |-> ns, Key |-> key, Content |-> content, Kind |-> kind, Tags |-> tags,
     Priority |-> priority, TTL |-> ttl]

PutInputs ==
    { PutParams("t", KeyG, TextAB, "", {}, "", ""),
      PutParams("t", KeyG, TextBA, "", {"x"}, "high", "1s"),
      PutParams("o", KeyH, TextABC, "episodic", {}, "critical", ""),
      PutParams("o", KeyH, TextAB, "", {}, "", "7x") }

RmInputs ==
    {[NS |-> s[1], Key |-> s[2], AllVersions |-> a, Hard |-> h] :
        s \in Slots, a \in BOOLEAN, h \in BOOLEAN}

GetInputs ==
    {[NS |-> s[1], Key |-> s[2], History |-> h, Version |-> v] :
        s \in Slots, h \in BOOLEAN, v \in 0..2}

LinkInputs ==
    {[FromNS |-> "t", FromKey |-> KeyG, ToNS |-> "o", ToKey |-> KeyH,
      Rel |-> r, Remove |-> d] : r \in {"relates_to", "invalid"}, d \in BOOLEAN}

validRels == {"relates_to", "contradicts", "depends_on", "refines"}

(***************************************************************************)
(* History bookkeeping (not program state): what was done to each slot.    *)
(***************************************************************************)
\*   n, content: while no Rm has succeeded on the slot, the number of Puts
\*                and the content of the last one
\*   rmd:        an Rm has succeeded on the slot
\*   last:       the last successful Put or Rm on the slot
\*   live:       the number of non-deleted versions just before that Rm
NoHist == [n |-> 0, content |-> <<>>, rmd |-> FALSE, last |-> "none", live |-> 0]

HistPut(p) ==
    [hist EXCEPT ![<<p.NS, p.Key>>] =
        IF @.rmd THEN [@ EXCEPT !.last = "put", !.live = 0]
        ELSE [@ EXCEPT !.n = @ + 1, !.content = p.Content, !.last = "put"]]

RmName(p) ==
    IF p.Hard THEN (IF p.AllVersions THEN "rm_hard_all" ELSE "rm_hard")
    ELSE (IF p.AllVersions THEN "rm_all" ELSE "rm")

HistRm(p) ==
    [hist EXCEPT ![<<p.NS, p.Key>>] =
        [n |-> 0, content |-> <<>>, rmd |-> TRUE, last |-> RmName(p),
         live |-> Cardinality(LiveOf(p.NS, p.Key))]]

(***************************************************************************)
(* Put: one transaction inserting the new version and its chunks.          *)
(***************************************************************************)
Put(p) ==
    IF p.TTL # "" /\ ~parseTTL(p.TTL).ok
    THEN /\ ret' = Ret("Put", p, TRUE, <<>>)
         /\ UNCHANGED <<memories, chunks, memory_links, nextID, now, nputs, hist, keepRet, pending>>
    ELSE LET row == PutRow(p, nextID)
             cs == PutChunks(p, nextID)
         IN  /\ nputs < MaxPuts
             /\ nputs' = nputs + 1
             /\ memories' = memories \cup {row}
             /\ chunks' = chunks \cup cs
             /\ nextID' = nextID + 1 + Cardinality(cs)
             /\ hist' = HistPut(p)
             /\ ret' = Ret("Put", p, FALSE, <<row>>)
             /\ UNCHANGED <<memory_links, now, keepRet, pending>>

(***************************************************************************)
(* Rm: each statement runs on its own (no transaction).                    *)
(***************************************************************************)
RmHardAll(p) ==
    LET ids == {m.id : m \in RowsOf(p.NS, p.Key)}
        \* DELETE FROM chunks WHERE memory_id IN (SELECT id ...)
        chunks1 == {c \in chunks : c.memory_id \notin ids}
        \* DELETE FROM memories WHERE ns = ? AND key = ?
        fk == \E l \in memory_links : l.from_id \in ids \/ l.to_id \in ids
    IN  /\ chunks' = chunks1
        /\ memories' = IF fk THEN memories ELSE memories \ RowsOf(p.NS, p.Key)
        /\ hist' = IF fk THEN hist ELSE HistRm(p)
        /\ ret' = Ret("Rm", <<p.NS, p.Key>>, fk, <<>>)

RmHardLatest(p) ==
    IF LatestLive(p.NS, p.Key) = {}
    THEN /\ ret' = Ret("Rm", <<p.NS, p.Key>>, TRUE, <<>>)
         /\ UNCHANGED <<memories, chunks, hist>>
    ELSE \E m \in LatestLive(p.NS, p.Key) :
            LET \* DELETE FROM chunks WHERE memory_id = ? (its error is dropped)
                chunks1 == chunks \ ChunksOf(m.id)
                \* DELETE FROM memories WHERE id = ?
                fk == \E l \in memory_links : l.from_id = m.id \/ l.to_id = m.id
            IN  /\ chunks' = chunks1
                /\ memories' = IF fk THEN memories ELSE memories \ {m}
                /\ hist' = IF fk THEN hist ELSE HistRm(p)
                /\ ret' = Ret("Rm", <<p.NS, p.Key>>, fk, <<>>)

\* (variant: version 1 of the key is left as it is)
RmSoftAllButFirst(p) ==
    /\ memories' = {IF m \in LiveOf(p.NS, p.Key) /\ m.version > 1
                    THEN [m EXCEPT !.deleted_at = now] ELSE m : m \in memories}
    /\ hist' = HistRm(p)
    /\ ret' = Ret("Rm", <<p.NS, p.Key>>, FALSE, <<>>)
    /\ UNCHANGED chunks

RmSoftAll(p) ==
    /\ memories' = {IF m \in LiveOf(p.NS, p.Key)
                    THEN [m EXCEPT !.deleted_at = now] ELSE m : m \in memories}
    /\ hist' = HistRm(p)
    /\ ret' = Ret("Rm", <<p.NS, p.Key>>, FALSE, <<>>)
    /\ UNCHANGED chunks

RmSoftLatest(p) ==
    IF LatestLive(p.NS, p.Key) = {}
    THEN /\ ret' = Ret("Rm", <<p.NS, p.Key>>, TRUE, <<>>)
         /\ UNCHANGED <<memories, chunks, hist>>
    ELSE \E m \in LatestLive(p.NS, p.Key) :
            /\ memories' = (memories \ {m}) \cup {[m EXCEPT !.deleted_at = now]}
            /\ hist' = HistRm(p)
            /\ ret' = Ret("Rm", <<p.NS, p.Key>>, FALSE, <<>>)
            /\ UNCHANGED chunks

Rm(p) ==
    /\ IF p.Hard
       THEN (IF p.AllVersions THEN RmHardAll(p) ELSE RmHardLatest(p))
       ELSE (IF p.AllVersions THEN RmSoftAll(p) ELSE RmSoftLatest(p))
    /\ UNCHANGED <<memory_links, nextID, now, nputs, keepRet, pending>>

(***************************************************************************)
(* Get.                                                                    *)
(***************************************************************************)
\* (variant: ORDER BY version ASC)
VersionRankAsc(S) == [m \in S |-> 0 - m.version]
VersionRank(S) == [m \in S |-> m.version]
CreatedRank(S) == [m \in S |-> m.created_at]

\* (variant: the history query without deleted_at IS NULL)
GetRowsWithDeleted(p) ==
    IF p.History
    THEN OrdersDesc(RowsOf(p.NS, p.Key), VersionRank(RowsOf(p.NS, p.Key)))
    ELSE IF p.Version > 0
    THEN LET S == {m \in LiveOf(p.NS, p.Key) :
                      m.version = p.Version /\ NotExpired(m)}
         IN  IF S = {} THEN {<<>>} ELSE {<<m>> : m \in S}
    ELSE LET S == {m \in LiveOf(p.NS, p.Key) : NotExpired(m)}
         IN  {Take(o, 1) : o \in OrdersDesc(S, VersionRank(S))}

\* The row lists the SELECT of Get can produce.
GetRows(p) ==
    IF p.History
    THEN \* History shows all versions including expired
         OrdersDesc(LiveOf(p.NS, p.Key), VersionRank(LiveOf(p.NS, p.Key)))
    ELSE IF p.Version > 0
    THEN LET S == {m \in LiveOf(p.NS, p.Key) :
                      m.version = p.Version /\ NotExpired(m)}
         IN  IF S = {} THEN {<<>>} ELSE {<<m>> : m \in S}
    ELSE LET S == {m \in LiveOf(p.NS, p.Key) : NotExpired(m)}
         IN  {Take(o, 1) : o \in OrdersDesc(S, VersionRank(S))}

\* (variant: the count goes up by two)
TouchTwice(id) ==
    {IF m.id = id THEN [m EXCEPT !.access_count = @ + 2] ELSE m : m \in memories}

\* UPDATE memories SET access_count = access_count + 1 ... WHERE id = ?
Touch(id) ==
    {IF m.id = id THEN [m EXCEPT !.access_count = @ + 1] ELSE m : m \in memories}

Get(p) ==
    \E rows \in GetRows(p) :
        /\ IF rows = <<>>
           THEN /\ ret' = Ret("Get", p, TRUE, <<>>)
                /\ UNCHANGED memories
           ELSE /\ ret' = Ret("Get", p, FALSE, rows)
                /\ IF ~p.History
                   THEN /\ rows[1].access_count < MaxAccess
                        /\ memories' = Touch(rows[1].id)
                   ELSE UNCHANGED memories
        /\ UNCHANGED <<chunks, memory_links, nextID, now, nputs, hist, keepRet, pending>>

(***************************************************************************)
(* List.                                                                   *)
(***************************************************************************)
DefaultLimit == 20

EffLimit(n) == IF n <= 0 THEN DefaultLimit ELSE n

\* m.tags LIKE '%"tag"%' on the JSON array of the row's tags
HasTag(m, tag) == tag \in m.tags

\* m.ns = ? / m.kind = ?, each only when the parameter is not empty
MatchNSKind(m, ns, kind) ==
    /\ (ns # "" => m.ns = ns)
    /\ (kind # "" => m.kind = kind)

ListRows(p) ==
    LET S == {m \in memories :
                /\ JoinLatest(m)
                /\ Visible(m)
                /\ MatchNSKind(m, p.NS, p.Kind)
                /\ \A tag \in p.Tags : HasTag(m, tag)}
    IN  {Take(o, EffLimit(p.Limit)) : o \in OrdersDesc(S, CreatedRank(S))}

ListInputs ==
    {[NS |-> ns, Kind |-> "", Tags |-> tg, Limit |-> l] :
        ns \in {"", "t"}, tg \in {{}, {"x"}}, l \in {0, 1}}

List(p) ==
    \E rows \in ListRows(p) :
        /\ ret' = Ret("List", p, FALSE, rows)
        /\ UNCHANGED <<memories, chunks, memory_links, nextID, now, nputs, hist, keepRet, pending>>

(***************************************************************************)
(* Link.                                                                   *)
(***************************************************************************)
\* resolveMemoryID: the ids the lookup can return, {} when it finds no row
resolveMemoryID(ns, key) == {m.id : m \in LatestLive(ns, key)}

\* (variant: a plain INSERT into a table without the primary key)
LinkInsertingAgain(p) ==
    /\ IF \/ p.Rel \notin validRels
          \/ resolveMemoryID(p.FromNS, p.FromKey) = {}
          \/ resolveMemoryID(p.ToNS, p.ToKey) = {}
       THEN /\ ret' = Ret("Link", p, TRUE, <<>>)
            /\ UNCHANGED memory_links
       ELSE \E fromID \in resolveMemoryID(p.FromNS, p.FromKey),
               toID \in resolveMemoryID(p.ToNS, p.ToKey) :
              LET same(l) == l.from_id = fromID /\ l.to_id = toID /\ l.rel = p.Rel
                  new == [from_id |-> fromID, to_id |-> toID, rel |-> p.Rel,
                          created_at |-> now]
              IN  IF p.Remove
                  THEN /\ memory_links' = {l \in memory_links : ~same(l)}
                       /\ ret' = Ret("Link", p, FALSE, <<[new EXCEPT !.created_at = NULL]>>)
                  ELSE /\ memory_links' = memory_links \cup {new}
                       /\ ret' = Ret("Link", p, FALSE, <<new>>)
    /\ UNCHANGED <<memories, chunks, nextID, now, nputs, hist, keepRet, pending>>

Link(p) ==
    /\ IF \/ p.Rel \notin validRels
          \/ resolveMemoryID(p.FromNS, p.FromKey) = {}
          \/ resolveMemoryID(p.ToNS, p.ToKey) = {}
       THEN /\ ret' = Ret("Link", p, TRUE, <<>>)
            /\ UNCHANGED memory_links
       ELSE \E fromID \in resolveMemoryID(p.FromNS, p.FromKey),
               toID \in resolveMemoryID(p.ToNS, p.ToKey) :
              LET same(l) == l.from_id = fromID /\ l.to_id = toID /\ l.rel = p.Rel
                  new == [from_id |-> fromID, to_id |-> toID, rel |-> p.Rel,
                          created_at |-> now]
              IN  IF p.Remove
                  THEN /\ memory_links' = {l \in memory_links : ~same(l)}
                       /\ ret' = Ret("Link", p, FALSE, <<[new EXCEPT !.created_at = NULL]>>)
                  ELSE \* INSERT OR IGNORE under PRIMARY KEY (from_id, to_id, rel)
                       /\ memory_links' =
                            IF \E l \in memory_links : same(l)
                            THEN memory_links ELSE memory_links \cup {new}
                       /\ ret' = Ret("Link", p, FALSE, <<new>>)
    /\ UNCHANGED <<memories, chunks, nextID, now, nputs, hist, keepRet, pending>>

\* GetLinks: WHERE from_id = ? OR to_id = ?
GetLinks(id) == {l \in memory_links : l.from_id = id \/ l.to_id = id}

(***************************************************************************)
(* A segment gets its precomputed embedding (the writer is outside the     *)
(* sources at hand; the vector pass reads chunks.embedding).               *)
(***************************************************************************)
Vec34 == <<3, 4>>
Vec724 == <<7, 24>>
Vectors == {Vec34, Vec724}

StoreEmbedding(c, v) ==
    /\ c.embedding = NoEmbedding
    /\ chunks' = (chunks \ {c}) \cup {[c EXCEPT !.embedding = v]}
    /\ UNCHANGED <<memories, memory_links, nextID, now, nputs, hist, ret, keepRet, pending>>

(***************************************************************************)
(* The clock.                                                              *)
(***************************************************************************)
Tick ==
    /\ now < MaxTime
    /\ now' = now + 1
    /\ UNCHANGED <<memories, chunks, memory_links, nextID, nputs, hist, ret, keepRet, pending>>

(***************************************************************************)
(* Search: the lexical (FTS5) pass, the substring (LIKE) pass and the      *)
(* vector pass.  env is what the call meets outside the tables:            *)
(*   embedder            s.embedder != nil                                 *)
(*   ftsErr, likeErr,    the FTS5 query, the LIKE query, Embed and the     *)
(*   embedErr, vecErr    vector scan, each failing or not                  *)
(*   queryVec            the vector Embed returns for the query            *)
(***************************************************************************)
SearchResult(m, sim) == [m |-> m, Similarity |-> sim]

IDsOf(rs) == {rs[i].m.id : i \in 1..Len(rs)}

\* the WHERE clause shared by the three passes
BaseWhere(m, p) == JoinLatest(m) /\ Visible(m) /\ MatchNSKind(m, p.NS, p.Kind)

\* chunks_fts MATCH 't1 AND t2 ...': every query term is a token of the chunk
FtsMatch(text, query) ==
    LET terms == Fields(query)
        tokens == Range(Fields(text))
    IN  \A i \in 1..Len(terms) : terms[i] \in tokens

\* The FTS5 query fails when the engine says so or when it has no term at all
\* (MATCH '' is a syntax error).
FtsFails(p, env) == env.ftsErr \/ Fields(p.Query) = <<>>

\* The rows of the FTS5 query, GROUP BY m.id, in every order its ORDER BY can
\* give (bm25's rank is not modelled, so any order), LIMIT n.
searchFTS(p, n) ==
    LET S == {m \in memories :
                /\ BaseWhere(m, p)
                /\ \E c \in ChunksOf(m.id) : FtsMatch(c.text, p.Query)}
    IN  {Take(o, n) : o \in OrdersDesc(S, [m \in S |-> 0])}

\* searchLike: SELECT DISTINCT ... LEFT JOIN chunks ... ORDER BY created_at DESC LIMIT n
searchLike(p, n) ==
    LET S == {m \in memories :
                /\ BaseWhere(m, p)
                /\ \/ Contains(m.content, p.Query)
                   \/ Contains(m.key, p.Query)
                   \/ \E c \in ChunksOf(m.id) : Contains(c.text, p.Query)}
    IN  {Take(o, n) : o \in OrdersDesc(S, CreatedRank(S))}

RECURSIVE Dot(_, _)
Dot(a, b) == IF a = <<>> THEN 0 ELSE a[1] * b[1] + Dot(Tail(a), Tail(b))

\* math.Sqrt, exact on the squares the model's vectors give
ISqrt(n) == CHOOSE r \in 0..n : r * r <= n /\ (r + 1) * (r + 1) > n

\* CosineSimilarity as the fraction num/den (den = 0: the function returns 0)
Cosine(a, b) ==
    IF Len(a) # Len(b) \/ Len(a) = 0 \/ Dot(a, a) = 0 \/ Dot(b, b) = 0
    THEN [num |-> 0, den |-> 1]
    ELSE [num |-> Dot(a, b), den |-> ISqrt(Dot(a, a)) * ISqrt(Dot(b, b))]

\* f1 > f2 for fractions with positive denominators
FracGT(f1, f2) == f1.num * f2.den > f2.num * f1.den

\* s.similarity < 0.3
MinSimilarityNum == 3
MinSimilarityDen == 10
\* (variant: no minimum similarity)
BelowNoThreshold(f) == FALSE

BelowThreshold(f) == f.num * MinSimilarityDen < MinSimilarityNum * f.den

\* math.Round(sim*1000) (the result's Similarity, in thousandths)
Milli(f) ==
    IF f.num >= 0 THEN (2000 * f.num + f.den) \div (2 * f.den)
    ELSE 0 - ((2000 * (0 - f.num) + f.den) \div (2 * f.den))

\* best[m.ID]: the highest similarity over the row's embedded chunks
BestSim(m, queryVec) ==
    LET fs == {Cosine(queryVec, c.embedding) :
                 c \in {c \in ChunksOf(m.id) : c.embedding # NoEmbedding}}
    IN  CHOOSE f \in fs : \A g \in fs : ~FracGT(g, f)

\* searchVector, after a successful Embed
searchVector(p, env, n) ==
    LET S == {m \in memories :
                /\ BaseWhere(m, p)
                /\ \E c \in ChunksOf(m.id) : c.embedding # NoEmbedding}
        K == {m \in S : ~BelowThreshold(BestSim(m, env.queryVec))}
        R == {SearchResult(m, Milli(BestSim(m, env.queryVec))) : m \in K}
    IN  {Take(o, n) : o \in OrdersDesc(R, [r \in R |-> r.Similarity])}

\* (variant: append without looking at seen)
AppendAll(rs, more) == rs \o more

\* append the results whose id has not been seen
RECURSIVE AppendUnseen(_, _)
AppendUnseen(rs, more) ==
    IF more = <<>> THEN rs
    ELSE IF more[1].m.id \in IDsOf(rs) THEN AppendUnseen(rs, Tail(more))
         ELSE AppendUnseen(Append(rs, more[1]), Tail(more))

\* sort.Slice(results, similarity descending, then created_at descending)
RankBase == 100
ReRank(rs) ==
    OrdersDesc(Range(rs),
               [r \in Range(rs) |-> r.Similarity * RankBase + r.m.created_at])

AsResults(rows) == [i \in 1..Len(rows) |-> SearchResult(rows[i], 0)]

\* (variant: the substring matches are put before the lexical ones)
LexicalMergedLikeFirst(p, env, limit) ==
    UNION {
        IF Len(f) < limit /\ ~env.likeErr
        THEN {AppendUnseen(AsResults(l), AsResults(f)) :
                l \in searchLike(p, limit - Len(f))}
        ELSE {AsResults(f)}
      : f \in searchFTS(p, limit)}

\* the merged list after the lexical pass and the substring top-up
LexicalMerged(p, env, limit) ==
    UNION {
        IF Len(f) < limit /\ ~env.likeErr
        THEN {AppendUnseen(AsResults(f), AsResults(l)) :
                l \in searchLike(p, limit - Len(f))}
        ELSE {AsResults(f)}
      : f \in searchFTS(p, limit)}

\* (variant: the vector pass runs although Embed has failed)
VectorMergedDespiteEmbedErr(rs, p, env, limit) ==
    IF env.embedder /\ ~env.vecErr
    THEN UNION {
            IF Len(v) > 0
            THEN {Take(o, limit) : o \in ReRank(AppendUnseen(rs, v))}
            ELSE {rs}
          : v \in searchVector(p, env, limit)}
    ELSE {rs}

VectorMerged(rs, p, env, limit) ==
    IF env.embedder /\ ~env.embedErr /\ ~env.vecErr
    THEN UNION {
            IF Len(v) > 0
            THEN {Take(o, limit) : o \in ReRank(AppendUnseen(rs, v))}
            ELSE {rs}
          : v \in searchVector(p, env, limit)}
    ELSE {rs}

\* (variant: a failing lexical query fails the call)
SearchFailingWithFTS(p, env) ==
    LET limit == EffLimit(p.Limit)
    IN  IF FtsFails(p, env)
        THEN {[err |-> TRUE, out |-> <<>>]}
        ELSE {[err |-> FALSE, out |-> rs] :
                rs \in UNION {VectorMerged(m, p, env, limit) :
                                m \in LexicalMerged(p, env, limit)}}

\* Search: the outcomes [err, out] the call can have
Search(p, env) ==
    LET limit == EffLimit(p.Limit)
    IN  IF FtsFails(p, env)
        THEN \* on error fall back to LIKE entirely
             IF env.likeErr THEN {[err |-> TRUE, out |-> <<>>]}
             ELSE {[err |-> FALSE, out |-> AsResults(l)] : l \in searchLike(p, limit)}
        ELSE {[err |-> FALSE, out |-> rs] :
                rs \in UNION {VectorMerged(m, p, env, limit) :
                                m \in LexicalMerged(p, env, limit)}}

\* The calls of Search the model makes.
SearchParams(ns, query, kind, limit) ==
    [NS |-> ns, Query |-> query, Kind |-> kind, Limit |-> limit]

SearchInputs ==
    { SearchParams("", <<"a">>, "", 0),
      SearchParams("", <<"a">>, "", 1),
      SearchParams("", <<"b">>, "", 1),
      SearchParams("", <<"b">>, "", 2),
      SearchParams("t", <<"b">>, "", 0),
      SearchParams("", KeyG, "", 0),
      SearchParams("", <<"z">>, "", 0),
      SearchParams("", <<>>, "episodic", 0) }

QueryVec == <<1, 0>>

\* Without an embedder nothing of the vector pass can fail; Embed and the
\* vector scan do not both fail in one call (the scan runs only after Embed).
Envs ==
    {e \in [embedder : BOOLEAN, ftsErr : BOOLEAN, likeErr : BOOLEAN,
            embedErr : BOOLEAN, vecErr : BOOLEAN, queryVec : {QueryVec}] :
        /\ (~e.embedder => ~e.embedErr /\ ~e.vecErr)
        /\ ~(e.embedErr /\ e.vecErr)}

(***************************************************************************)
(* Context: candidates from Search, scored, sorted and packed greedily     *)
(* into budget*4 characters.  Scores are kept in units of 10^-9.           *)
(***************************************************************************)
DefaultBudget == 4000
CharsPerToken == 4
SearchLimitForContext == 50
MinExcerpt == 100
Ellipsis == <<".", ".", ".">>

\* (variant: the scale upside down)
priorityScoreInverted(pr) ==
    CASE pr = "critical" -> 50000000
      [] pr = "high"     -> 100000000
      [] pr = "normal"   -> 150000000
      [] pr = "low"      -> 200000000
      [] OTHER           -> 100000000

\* priorityScore * 0.2
priorityScore(pr) ==
    CASE pr = "critical" -> 200000000
      [] pr = "high"     -> 150000000
      [] pr = "normal"   -> 100000000
      [] pr = "low"      -> 50000000
      [] OTHER           -> 100000000

\* math.Exp(-0.1 * age) * 0.2 with age in days: for the model's ages of a few
\* seconds, 0.2 * (1 - 0.1 * seconds / 86400), i.e. 231 units lost per second
RecencyScore(seconds) == 200000000 - 231 * seconds

\* math.Log(count + 1) / math.Log(100) * 0.2, capped at 0.2
AccessScore(count) ==
    CASE count = 0 -> 0
      [] count = 1 -> 30103000
      [] count = 2 -> 47712125
      [] count = 3 -> 60206000
      [] count = 4 -> 69897000
      [] OTHER     -> 200000000

\* relevance*0.4 + recency*0.2 + importance*0.2 + accessFreq*0.2
Score(m) ==
    400000000 + RecencyScore(now - m.created_at) + priorityScore(m.priority)
              + AccessScore(m.access_count)

\* math.Round(score * 100), the Score field in hundredths
RoundedScore(m) == (Score(m) + 5000000) \div 10000000

\* (id is bookkeeping: the row the entry was made from)
ContextMemory(m, content, excerpt) ==
    [NS |-> m.ns, Key |-> m.key, Kind |-> m.kind, Content |-> content,
     Score |-> RoundedScore(m), Excerpt |-> excerpt, id |-> m.id]

\* (variant: a candidate that does not fit whole ends the packing, no excerpt)
RECURSIVE PackWholeOnly(_, _, _, _)
PackWholeOnly(cands, charBudget, used, acc) ==
    IF cands = <<>> THEN [Memories |-> acc, used |-> used]
    ELSE LET m == cands[1]
             contentLen == Len(m.content)
         IN  IF used + contentLen <= charBudget
             THEN PackWholeOnly(Tail(cands), charBudget, used + contentLen,
                                Append(acc, ContextMemory(m, m.content, FALSE)))
             ELSE [Memories |-> acc, used |-> used]

\* (variant: a candidate that does not fit whole is passed over and the
\* packing goes on with the next one)
RECURSIVE PackSkipping(_, _, _, _)
PackSkipping(cands, charBudget, used, acc) ==
    IF cands = <<>> THEN [Memories |-> acc, used |-> used]
    ELSE LET m == cands[1]
             contentLen == Len(m.content)
         IN  IF used + contentLen <= charBudget
             THEN PackSkipping(Tail(cands), charBudget, used + contentLen,
                               Append(acc, ContextMemory(m, m.content, FALSE)))
             ELSE PackSkipping(Tail(cands), charBudget, used, acc)

\* the greedy packing loop over the sorted candidates
RECURSIVE Pack(_, _, _, _)
Pack(cands, charBudget, used, acc) ==
    IF cands = <<>> THEN [Memories |-> acc, used |-> used]
    ELSE LET m == cands[1]
             contentLen == Len(m.content)
             remaining == charBudget - used
         IN  IF used + contentLen <= charBudget
             THEN Pack(Tail(cands), charBudget, used + contentLen,
                       Append(acc, ContextMemory(m, m.content, FALSE)))
             ELSE IF remaining >= MinExcerpt
             THEN LET excerpt == IF contentLen > remaining
                                 THEN Take(m.content, remaining) \o Ellipsis
                                 ELSE m.content
                  IN  [Memories |-> Append(acc, ContextMemory(m, excerpt, TRUE)),
                       used |-> used + Len(excerpt)]
             ELSE [Memories |-> acc, used |-> used]

EffBudget(b) == IF b <= 0 THEN DefaultBudget ELSE b

\* Context: the outcomes [err, out] the call can have
Context(p, env) ==
    LET budget == EffBudget(p.Budget)
        charBudget == budget * CharsPerToken
        found == Search([NS |-> p.NS, Query |-> p.Query, Kind |-> p.Kind,
                         Limit |-> SearchLimitForContext], env)
    IN  UNION {
          IF r.err THEN {[err |-> TRUE, out |-> <<>>]}
          ELSE IF Len(r.out) = 0
          THEN {[err |-> FALSE,
                 out |-> [Budget |-> budget, Used |-> 0, Memories |-> <<>>]]}
          ELSE LET C == {r.out[i].m : i \in 1..Len(r.out)}
               IN  {LET pk == Pack(o, charBudget, 0, <<>>)
                    IN  [err |-> FALSE,
                         out |-> [Budget |-> budget,
                                  Used |-> pk.used \div CharsPerToken,
                                  Memories |-> pk.Memories]]
                    : o \in OrdersDesc(C, [m \in C |-> Score(m)])}
        : r \in found}

(***************************************************************************)
(* The store under Put, Rm and the passage of time.                        *)
(***************************************************************************)
Start ==
    /\ memories = {}
    /\ chunks = {}
    /\ memory_links = {}
    /\ nextID = 1
    /\ now = 1
    /\ nputs = 0
    /\ hist = [s \in Slots |-> NoHist]
    /\ ret = NoRet
    /\ pending = {}

Init == Start /\ keepRet = TRUE

DoPut == \E p \in PutInputs : Put(p)
DoRm == \E p \in RmInputs : Rm(p)
DoGet == \E p \in GetInputs : Get(p)
DoList == \E p \in ListInputs : List(p)
DoLink == \E p \in LinkInputs : Link(p)
DoStoreEmbedding == \E c \in chunks, v \in Vectors : StoreEmbedding(c, v)

Next == DoPut \/ DoRm \/ Tick

Spec == Init /\ [][Next]_vars

(***************************************************************************)
(* The same store with segments getting embeddings: what Search reads.     *)
(***************************************************************************)
NextSearch == DoPut \/ DoRm \/ DoStoreEmbedding \/ Tick

\* Search is read off the store, so the caller drops what Put and Rm return
InitSearch == Start /\ keepRet = FALSE

SpecSearch == InitSearch /\ [][NextSearch]_vars

(***************************************************************************)
(* The store under Put, Rm and Link.                                       *)
(***************************************************************************)
NextLink == DoPut \/ DoRm \/ DoLink

SpecLink == Init /\ [][NextLink]_vars

(***************************************************************************)
(* Search and Context as calls, over contents long enough to fill a small  *)
(* budget.  Get is part of it because the access count enters the score.   *)
(***************************************************************************)
Text120 == <<"a", " ">> \o Rep("b", 118)
Text60 == <<"a", " ">> \o Rep("c", 58)

LongPutInputs ==
    { PutParams("t", KeyG, Text120, "", {}, "", ""),
      PutParams("t", KeyG, Text120, "", {}, "critical", ""),
      PutParams("o", KeyH, Text60, "", {"x"}, "high", "") }

ContextParams(ns, query, kind, tags, budget) ==
    [NS |-> ns, Query |-> query, Kind |-> kind, Tags |-> tags, Budget |-> budget]

ContextInputs ==
    {ContextParams("", <<"a">>, "", tg, b) : tg \in {{}, {"x"}}, b \in {0, 10, 20, 25, 30, 40}}

NoFailure ==
    [embedder |-> FALSE, ftsErr |-> FALSE, likeErr |-> FALSE, embedErr |-> FALSE,
     vecErr |-> FALSE, queryVec |-> QueryVec]

CallEnvs == {NoFailure, [NoFailure EXCEPT !.ftsErr = TRUE, !.likeErr = TRUE]}

DoContext ==
    \E p \in ContextInputs, env \in CallEnvs :
        \E r \in Context(p, env) :
            /\ ret' = Ret("Context", p, r.err, r.out)
            /\ UNCHANGED <<memories, chunks, memory_links, nextID, now, nputs, hist, keepRet, pending>>

DoSearch ==
    \E p \in SearchInputs, env \in CallEnvs :
        \E r \in Search(p, env) :
            /\ ret' = Ret("Search", p, r.err, r.out)
            /\ UNCHANGED <<memories, chunks, memory_links, nextID, now, nputs, hist, keepRet, pending>>

PutLong == \E p \in LongPutInputs : Put(p)
GetLong == \E s \in Slots :
            Get([NS |-> s[1], Key |-> s[2], History |-> FALSE, Version |-> 0])

NextContext == PutLong \/ GetLong \/ DoSearch \/ DoContext \/ Tick

SpecContext == Init /\ [][NextContext]_vars

(***************************************************************************)
(* Properties of Put, Rm and Get.                                          *)
(***************************************************************************)
GetDefault(s) == [NS |-> s[1], Key |-> s[2], History |-> FALSE, Version |-> 0]
GetHistory(s) == [NS |-> s[1], Key |-> s[2], History |-> TRUE, Version |-> 0]

\* no version of the slot has expired
NoExpiry(s) == \A m \in RowsOf(s[1], s[2]) : NotExpired(m)

\* C1: after n >= 1 successful Puts to a key, no Rm on it and no expiry, Get
\* without version or history returns exactly the n-th Put's record (version
\* n, its content), and Get with history returns all n versions, versions
\* n, n-1, ..., 1 in that order.
C1_GetAfterPuts ==
    \A s \in Slots :
        (hist[s].n >= 1 /\ NoExpiry(s)) =>
            /\ \A rows \in GetRows(GetDefault(s)) :
                  /\ Len(rows) = 1
                  /\ rows[1].version = hist[s].n
                  /\ rows[1].content = hist[s].content
            /\ \A rows \in GetRows(GetHistory(s)) :
                  /\ Len(rows) = hist[s].n
                  /\ \A i \in 1..Len(rows) : rows[i].version = hist[s].n + 1 - i

\* two Puts to one key, then both Gets
C1_Witness ==
    \E s \in Slots :
        /\ hist[s].n = 2
        /\ NoExpiry(s)
        /\ \E rows \in GetRows(GetDefault(s)) : Len(rows) = 1 /\ rows[1].version = 2
        /\ \E rows \in GetRows(GetHistory(s)) : Len(rows) = 2

(***************************************************************************)
(* Properties of Search.                                                   *)
(***************************************************************************)
NoDuplicateIDs(rs) ==
    \A i, j \in 1..Len(rs) : rs[i].m.id = rs[j].m.id => i = j

\* C2: whatever the store holds and however the passes end, the list Search
\* returns has each record id at most once.
C2_SearchNoDuplicates ==
    \A p \in SearchInputs, env \in Envs :
        \A r \in Search(p, env) : NoDuplicateIDs(r.out)

\* a record matched by the lexical and the substring pass (and by the vector
\* pass) is returned, once, next to a record only the substring pass matched
C2_Witness ==
    \E p \in SearchInputs, env \in Envs :
        /\ ~FtsFails(p, env) /\ ~env.likeErr
        /\ env.embedder /\ ~env.embedErr /\ ~env.vecErr
        /\ \E f \in searchFTS(p, EffLimit(p.Limit)),
              l \in searchLike(p, EffLimit(p.Limit)),
              v \in searchVector(p, env, EffLimit(p.Limit)) :
              /\ Len(f) >= 1
              /\ \E i \in 1..Len(l) : l[i] = f[1]
              /\ \E i \in 1..Len(v) : v[i].m = f[1]
              /\ \E r \in Search(p, env) :
                    /\ Len(r.out) = 2
                    /\ \E i \in 1..2 : r.out[i].m = f[1]

(***************************************************************************)
(* Properties of Context.                                                  *)
(***************************************************************************)
RECURSIVE TotalChars(_)
TotalChars(ms) == IF ms = <<>> THEN 0 ELSE Len(ms[1].Content) + TotalChars(Tail(ms))

\* C3: the contents of the entries Context returns, the final excerpt with its
\* ellipsis included, never total more than budget * 4 characters.
C3_ContextWithinBudget ==
    (ret.op = "Context" /\ ~ret.err) =>
        TotalChars(ret.out.Memories) <= ret.out.Budget * CharsPerToken

\* env with the embedder taken away
WithoutEmbedder(env) ==
    [env EXCEPT !.embedder = FALSE, !.embedErr = FALSE, !.vecErr = FALSE]

SoftDeleted(m) == m.deleted_at # NULL
Expired(m) == m.expires_at # NULL /\ m.expires_at <= now
Gone(m) == SoftDeleted(m) \/ Expired(m)

\* the Gets without history
PlainGets == {p \in GetInputs : ~p.History}

ContextCalls == {ContextParams("", <<"a">>, "", {}, 0)}

\* the stored row a Context entry was made from
RowOfEntry(e) == CHOOSE m \in memories : m.id = e.id

\* C4: no version that is soft-deleted or whose expires_at has passed is
\* returned by Get without history (default or explicit version), by List, by
\* Search (however its passes end) or by Context.
C4_ReadsExcludeGone ==
    /\ \A p \in PlainGets : \A rows \in GetRows(p) :
          \A i \in 1..Len(rows) : ~Gone(rows[i])
    /\ \A p \in ListInputs : \A rows \in ListRows(p) :
          \A i \in 1..Len(rows) : ~Gone(rows[i])
    /\ \A p \in SearchInputs, env \in Envs : \A r \in Search(p, env) :
          \A i \in 1..Len(r.out) : ~Gone(r.out[i].m)
    /\ \A p \in ContextCalls, env \in Envs : \A r \in Context(p, env) :
          ~r.err => \A i \in 1..Len(r.out.Memories) :
                        ~Gone(RowOfEntry(r.out.Memories[i]))

\* a soft-deleted version and an expired one, both matching the query and the
\* expired one with an embedded chunk, and the reads return neither
C4_Witness ==
    \E d, e \in memories :
        /\ SoftDeleted(d) /\ ~SoftDeleted(e) /\ Expired(e)
        /\ Contains(d.content, <<"a">>) /\ Contains(e.content, <<"a">>)
        /\ \E c \in ChunksOf(e.id) : c.embedding # NoEmbedding
        /\ \A env \in Envs : ~env.ftsErr =>
              \A r \in Search(SearchParams("", <<"a">>, "", 0), env) :
                  ~r.err /\ r.out = <<>>
        /\ GetRows(GetDefault(SlotOf(e))) = {<<>>}
        /\ \A p \in ListInputs : ListRows(p) = {<<>>}

\* Get without version or history finds nothing for the slot, and neither
\* List nor Search returns a record of it
NoReadFinds(s) ==
    /\ GetRows(GetDefault(s)) = {<<>>}
    /\ \A p \in ListInputs : \A rows \in ListRows(p) :
          \A i \in 1..Len(rows) : SlotOf(rows[i]) # s
    /\ \A p \in SearchInputs, env \in Envs : \A r \in Search(p, env) :
          \A i \in 1..Len(r.out) : SlotOf(r.out[i].m) # s

\* C5 as claimed: after a successful Rm without hard and all-versions, and
\* until the next Put to the key, Get without version or history reports not
\* found and List and Search return no record of the key, however many
\* versions the key had.
C5_SoftRmHidesKey ==
    \A s \in Slots : hist[s].last = "rm" => NoReadFinds(s)

\* C5 as the code has it: the key is hidden when the version removed was its
\* only non-deleted one; otherwise Get falls back to the version below it.
C5_SoftRmHidesSingleVersion ==
    \A s \in Slots :
        hist[s].last = "rm" =>
            /\ hist[s].live = 1 => NoReadFinds(s)
            /\ (hist[s].live >= 2 /\ NoExpiry(s)) =>
                  \A rows \in GetRows(GetDefault(s)) :
                      Len(rows) = 1 /\ rows[1].version = hist[s].live - 1

\* a key whose only version, matching the queries, has just been soft-deleted
C5_Witness ==
    \E s \in Slots :
        /\ hist[s].last = "rm" /\ hist[s].live = 1
        /\ \E m \in RowsOf(s[1], s[2]) :
              SoftDeleted(m) /\ Contains(m.content, <<"a">>)

\* the rows some Get without history, List or Search can return
PlainlyReturned ==
    UNION ( {Range(rows) : rows \in UNION {GetRows(p) : p \in PlainGets}}
            \cup {Range(rows) : rows \in UNION {ListRows(p) : p \in ListInputs}}
            \cup {{r.out[i].m : i \in 1..Len(r.out)} :
                    r \in UNION {Search(p, env) : p \in SearchInputs, env \in Envs}} )

\* the rows Get with history can return
HistoryReturned ==
    UNION {Range(rows) : rows \in UNION {GetRows(GetHistory(s)) : s \in Slots}}

\* C6 as claimed: a soft-deleted version is returned by Get with history and
\* by no other read; a hard-deleted version (no longer among the stored rows)
\* is returned by no read.
C6_TombstoneInHistoryOnly ==
    LET plain == PlainlyReturned
        history == HistoryReturned
    IN  /\ \A m \in memories : SoftDeleted(m) =>
              m \in history /\ m \notin plain
        /\ (plain \cup history) \subseteq memories

\* C6 as the code has it: a soft-deleted version is returned by no read, Get
\* with history included, which returns exactly the non-deleted versions of
\* the key (expired ones too); every returned row is a stored one, so a
\* hard-deleted version is returned by no read.
C6_SoftDeletedInNoRead ==
    LET plain == PlainlyReturned
        history == HistoryReturned
    IN  /\ \A m \in memories : SoftDeleted(m) =>
              m \notin history /\ m \notin plain
        /\ \A s \in Slots : \A rows \in GetRows(GetHistory(s)) :
              Range(rows) = LiveOf(s[1], s[2])
        /\ (plain \cup history) \subseteq memories

\* a key with a soft-deleted version and a remaining one that Get with
\* history returns
C6_Witness ==
    \E m \in memories :
        /\ SoftDeleted(m)
        /\ \E rows \in GetRows(GetHistory(SlotOf(m))) :
              Len(rows) >= 1 /\ m \notin Range(rows)

(***************************************************************************)
(* Properties of the version chain.                                        *)
(***************************************************************************)
\* C7: the stored records of one key, soft-deleted ones included, carry
\* pairwise distinct version numbers, and a record created later (ids are
\* handed out in creation order) has a strictly greater version number than
\* every record of the key created earlier.
C7_VersionsDistinctAndIncreasing ==
    \A a, b \in memories :
        (SlotOf(a) = SlotOf(b) /\ a # b) =>
            /\ a.version # b.version
            /\ a.id < b.id => a.version < b.version

\* C8: the non-deleted versions of each key are numbered exactly 1..N, one
\* record per number; version 1 has no supersedes, and every version v > 1
\* supersedes the non-deleted version v-1 of its key; a Put on the key returns
\* the record numbered N+1 (1 when the key had no non-deleted version), N
\* counted before the Put.
C8_LiveVersionsContiguous ==
    /\ \A s \in Slots :
          LET live == LiveOf(s[1], s[2])
              N == Cardinality(live)
          IN  /\ {m.version : m \in live} = 1..N
              /\ \A m \in live : m.version = 1 => m.supersedes = NULL
              /\ \A m \in live : m.version > 1 =>
                    \E q \in live : q.version = m.version - 1 /\ m.supersedes = q.id
    /\ (ret.op = "Put" /\ ~ret.err) =>
          /\ ret.out[1] \in memories
          /\ ret.out[1].version = Cardinality(LiveOf(ret.p.NS, ret.p.Key))

\* the second Put on a key returns version 2, atop version 1
C8_Witness ==
    /\ ret.op = "Put" /\ ~ret.err /\ ret.out[1].version = 2
    /\ Cardinality(LiveOf(ret.p.NS, ret.p.Key)) = 2

(***************************************************************************)
(* Properties of the segments.                                             *)
(***************************************************************************)
\* C9: after any Put, Rm and Link, failed ones included, a record version is
\* stored exactly when its segments are: every segment belongs to a stored
\* record, and every stored record has the segments its Put created with it,
\* which go only when the record itself is hard-deleted.
C9_SegmentsWithTheirRecord ==
    /\ \A c \in chunks : \E m \in memories : m.id = c.memory_id
    /\ \A m \in memories :
          {[seq |-> c.seq, text |-> c.text] : c \in ChunksOf(m.id)}
            = {[seq |-> i - 1, text |-> Chunk(m.content, DefaultOptions)[i].Text] :
                  i \in 1..Len(Chunk(m.content, DefaultOptions))}

(***************************************************************************)
(* Properties of the vector pass and of the order of Search.               *)
(***************************************************************************)
\* the environment of a call with no embedding provider bound, the lexical
\* and substring queries behaving as in e
Unbound(e) ==
    [e EXCEPT !.embedder = FALSE, !.embedErr = FALSE, !.vecErr = FALSE]

\* C11: in every store state and for every query, Search with a provider
\* whose Embed call fails has exactly the outcomes (ordered lists) of Search
\* with no provider bound, and the failed Embed adds no error: the call fails
\* only where the call without a provider fails too (both the lexical and
\* the substring query failing), never while the substring query works.
C11_EmbedFailureAsUnbound ==
    \A p \in SearchInputs :
        \A e \in {e \in Envs : e.embedder /\ e.embedErr} :
            /\ Search(p, e) = Search(p, Unbound(e))
            /\ ~e.likeErr => \A r \in Search(p, e) : ~r.err

\* a visible record with an embedded segment close to the query exists, so
\* a working vector pass would add it, and the call whose Embed fails
\* returns the lexical result without it
C11_Witness ==
    \E p \in SearchInputs :
        \E e \in {e \in Envs : e.embedder /\ e.embedErr /\ ~e.ftsErr /\ ~e.likeErr} :
            /\ \E v \in searchVector(p, e, EffLimit(p.Limit)) :
                   \E i \in 1..Len(v) :
                      \A r \in Search(p, e) : v[i].m.id \notin IDsOf(r.out)
            /\ \E r \in Search(p, e) : ~r.err /\ Len(r.out) > 0

\* C12: for a fixed store state and clock, two calls of Search with the same
\* parameters return the same result.  The rows of the two SQL queries come
\* in an order the engine fixes for a given store, so the calls compared are
\* those where the merged lexical list is one list; the records returned
\* are then the same whichever way the vector pass walks its map of best
\* scores.  (Search and Context issue SELECT statements only, so they change
\* no row: their steps leave the store as it is.)
C12_SearchRepeatable ==
    \A p \in SearchInputs :
        \A e \in {e \in Envs : e.embedder /\ ~e.embedErr /\ ~e.vecErr} :
            (/\ ~FtsFails(p, e)
             /\ Cardinality(LexicalMerged(p, e, EffLimit(p.Limit))) = 1)
            => \A r1, r2 \in Search(p, e) : IDsOf(r1.out) = IDsOf(r2.out)

\* the calls whose vector pass runs to its end
VectorEnvs == {e \in Envs : e.embedder /\ ~e.embedErr /\ ~e.vecErr}

\* the vector pass of the call contributes at least one result
VectorContributes(p, e) ==
    /\ ~FtsFails(p, e)
    /\ \E v \in searchVector(p, e, EffLimit(p.Limit)) : Len(v) > 0

\* record m is among the results of the vector pass, however the pass cuts
VectorScored(m, p, e) ==
    \A v \in searchVector(p, e, EffLimit(p.Limit)) : m.id \in IDsOf(v)

\* the list is ordered by descending similarity, then descending created_at
RankedBySimilarity(out) ==
    \A i, j \in 1..Len(out) :
        i < j => \/ out[i].Similarity > out[j].Similarity
                 \/ /\ out[i].Similarity = out[j].Similarity
                    /\ out[i].m.created_at >= out[j].m.created_at

\* C13: when the vector pass contributes a result, the list Search returns
\* has at most limit entries and is ordered by descending similarity, then
\* descending created_at, and every record the vector pass scored carries
\* its best-segment similarity (so only records without a score sort last).
C13_VectorRanking ==
    \A p \in SearchInputs :
        \A e \in VectorEnvs :
            VectorContributes(p, e) =>
                \A r \in Search(p, e) :
                    /\ ~r.err
                    /\ Len(r.out) <= EffLimit(p.Limit)
                    /\ RankedBySimilarity(r.out)
                    /\ \A i \in 1..Len(r.out) :
                          VectorScored(r.out[i].m, p, e) =>
                              r.out[i].Similarity =
                                  Milli(BestSim(r.out[i].m, e.queryVec))

\* no vector result is merged into the call's list
NoVectorMerge(p, e) == e \notin VectorEnvs \/ ~VectorContributes(p, e)

\* record m is found by the lexical pass of the call
LexicalHit(m, p, e) ==
    /\ ~FtsFails(p, e)
    /\ BaseWhere(m, p)
    /\ \E c \in ChunksOf(m.id) : FtsMatch(c.text, p.Query)

\* the records of the list, in its order
RowsIn(out) == [i \in 1..Len(out) |-> out[i].m]

\* C14: when no vector result is merged, Search returns at most limit
\* records (20 when limit <= 0), every record found by the lexical pass
\* comes before every record found only by the substring pass, the lexical
\* records are the rows of the lexical query in its order, and the
\* substring-only records are in descending created_at order.
C14_LexicalThenSubstring ==
    \A p \in SearchInputs :
        \A e \in Envs :
            NoVectorMerge(p, e) =>
                \A r \in Search(p, e) :
                    LET out == r.out
                        k == Cardinality({i \in 1..Len(out) : LexicalHit(out[i].m, p, e)})
                    IN  /\ Len(out) <= IF p.Limit <= 0 THEN 20 ELSE p.Limit
                        /\ \A i \in 1..Len(out) : LexicalHit(out[i].m, p, e) <=> i <= k
                        /\ ~FtsFails(p, e) =>
                              RowsIn(SubSeq(out, 1, k)) \in searchFTS(p, EffLimit(p.Limit))
                        /\ \A i, j \in (k + 1)..Len(out) :
                              i < j => out[i].m.created_at >= out[j].m.created_at
                        /\ \A i \in 1..Len(out) : out[i].Similarity = 0

\* a call without vector merge returns a lexical hit followed by a record
\* only the substring pass found, and a newer record than the lexical hit
C14_Witness ==
    \E p \in SearchInputs :
        \E e \in Envs :
            /\ NoVectorMerge(p, e)
            /\ \E r \in Search(p, e) :
                  /\ Len(r.out) = 2
                  /\ LexicalHit(r.out[1].m, p, e)
                  /\ ~LexicalHit(r.out[2].m, p, e)
                  /\ r.out[2].m.created_at > r.out[1].m.created_at

\* M: the visible latest records the lexical or the substring pass matches
Matched(p) ==
    {m \in memories :
        /\ BaseWhere(m, p)
        /\ \/ \E c \in ChunksOf(m.id) : FtsMatch(c.text, p.Query)
           \/ Contains(m.content, p.Query)
           \/ Contains(m.key, p.Query)
           \/ \E c \in ChunksOf(m.id) : Contains(c.text, p.Query)}

\* C15: when no vector pass runs and both queries succeed, Search returns
\* exactly min(limit, |M|) records, so with fewer than limit records
\* returned every record of M is among them.  (Calls are taken where the
\* rows of the two queries have one possible order, so that the list is the
\* one the engine gives.)
C15_TopUpFillsLimit ==
    \A p \in SearchInputs :
        \A e \in {e \in Envs : ~e.embedder /\ ~e.likeErr} :
            (/\ ~FtsFails(p, e)
             /\ Cardinality(LexicalMerged(p, e, EffLimit(p.Limit))) = 1)
            => \A r \in Search(p, e) :
                  /\ ~r.err
                  /\ Len(r.out) = Min({EffLimit(p.Limit), Cardinality(Matched(p))})

\* the visible latest records with an embedded segment whose best
\* similarity with the query is below 0.3
FarRecords(p, e) ==
    {m \in memories :
        /\ BaseWhere(m, p)
        /\ \E c \in ChunksOf(m.id) : c.embedding # NoEmbedding
        /\ 10 * BestSim(m, e.queryVec).num < 3 * BestSim(m, e.queryVec).den}

\* C16: the vector pass contributes no record whose best segment similarity
\* is below 0.3, and every entry of a Search result has a similarity that
\* is absent (0) or at least 0.3 (300 thousandths).  The calls are those
\* whose vector pass runs; the others build their entries without a score.
C16_MinimumSimilarity ==
    \A p \in SearchInputs :
        \A e \in VectorEnvs :
            /\ \A v \in searchVector(p, e, EffLimit(p.Limit)) :
                  IDsOf(v) \cap {m.id : m \in FarRecords(p, e)} = {}
            /\ \A r \in Search(p, e) :
                  \A i \in 1..Len(r.out) :
                      r.out[i].Similarity = 0 \/ r.out[i].Similarity >= 300

\* a semantic-only call: one record's segment is close to the query and is
\* returned with its similarity, the other's is below 0.3 and is left out
C16_Witness ==
    \E p \in SearchInputs :
        \E e \in VectorEnvs :
            /\ FarRecords(p, e) # {}
            /\ \E r \in Search(p, e) :
                  /\ Len(r.out) = 1
                  /\ r.out[1].Similarity >= 300
                  /\ \A m \in FarRecords(p, e) : m.id \notin IDsOf(r.out)

(***************************************************************************)
(* Properties of Context.  ret holds the last call; the store has not      *)
(* changed since (only the clock may have moved, which shifts every score  *)
(* by the same amount).                                                    *)
(***************************************************************************)
ContextReturned == ret.op = "Context" /\ ~ret.err

\* the candidates Search gives the call held in ret
Candidates ==
    UNION {{r.out[i].m : i \in 1..Len(r.out)} :
             r \in Search([NS |-> ret.p.NS, Query |-> ret.p.Query,
                           Kind |-> ret.p.Kind, Limit |-> SearchLimitForContext],
                          NoFailure)}

\* the candidates no other candidate outscores
TopCandidates == {m \in Candidates : \A c \in Candidates : Score(m) >= Score(c)}

\* C17 as claimed: whenever Search yields a candidate, Context returns at
\* least one entry, for every positive budget and every content length.
C17_ContextNeverEmpty ==
    (ContextReturned /\ ret.p.Budget > 0 /\ Candidates # {}) =>
        Len(ret.out.Memories) >= 1

\* C17 as the code has it: whenever Search yields a candidate, Context
\* returns at least one entry if the budget is at least 100 characters (25
\* tokens) or the best-scored candidate fits the budget whole.
C17_ContextNonEmptyFromMinBudget ==
    (/\ ContextReturned
     /\ Candidates # {}
     /\ \/ ret.out.Budget * 4 >= 100
        \/ \A m \in TopCandidates : Len(m.content) <= ret.out.Budget * 4)
    => Len(ret.out.Memories) >= 1

\* a budget of 100 characters, a candidate of 120: one entry, an excerpt
C17_Witness ==
    /\ ContextReturned
    /\ ret.out.Budget * 4 = 100
    /\ \A m \in Candidates : Len(m.content) > 100
    /\ Len(ret.out.Memories) = 1
    /\ ret.out.Memories[1].Excerpt

\* the four priorities, lowest first
PriorityRank(pr) ==
    CASE pr = "low" -> 1 [] pr = "normal" -> 2 [] pr = "high" -> 3
      [] pr = "critical" -> 4

\* C18: the importance score is strictly ordered critical > high > normal >
\* low, and of two candidates with equal age and equal access count the one
\* with the higher priority comes earlier in the list Context returns: where
\* the lower one is in the list, the higher one is there before it.
C18_PriorityOrder ==
    /\ priorityScore("critical") > priorityScore("high")
    /\ priorityScore("high") > priorityScore("normal")
    /\ priorityScore("normal") > priorityScore("low")
    /\ ContextReturned =>
          \A j \in 1..Len(ret.out.Memories) :
              \A a \in Candidates :
                  LET b == RowOfEntry(ret.out.Memories[j])
                  IN  (/\ a.created_at = b.created_at
                       /\ a.access_count = b.access_count
                       /\ PriorityRank(a.priority) > PriorityRank(b.priority))
                      => \E i \in 1..(j - 1) : ret.out.Memories[i].id = a.id

\* two records put in the same second and never read, one critical and one
\* high: Context returns both, the critical one first
C18_Witness ==
    /\ ContextReturned
    /\ Len(ret.out.Memories) = 2
    /\ LET a == RowOfEntry(ret.out.Memories[1])
           b == RowOfEntry(ret.out.Memories[2])
       IN  /\ a.created_at = b.created_at
           /\ a.access_count = b.access_count
           /\ a.priority = "critical"
           /\ b.priority = "high"

\* C19: Context called with a non-empty tags filter returns only records
\* that carry every requested tag.
C19_ContextTagsFilter ==
    (ContextReturned /\ ret.p.Tags # {}) =>
        \A i \in 1..Len(ret.out.Memories) :
            ret.p.Tags \subseteq RowOfEntry(ret.out.Memories[i]).tags

\* the characters used by the entries before entry i
RECURSIVE UsedBefore(_, _)
UsedBefore(ms, i) ==
    IF i <= 1 THEN 0 ELSE UsedBefore(ms, i - 1) + Len(ms[i - 1].Content)

\* C20: the entries Context returns are a prefix of the candidates in
\* descending score order: the entries are in descending score order and no
\* candidate left out outscores one of them; every entry but the last is the
\* record's full content and not an excerpt; the last is the full content or
\* an excerpt, namely the content cut to the characters that remain with the
\* ellipsis appended, made only when at least 100 characters remain; and
\* when candidates are left out and the last entry is whole, a best-scored
\* one among those left out neither fits whole nor has 100 characters left.
C20_GreedyPrefix ==
    ContextReturned =>
        LET ms == ret.out.Memories
            n == Len(ms)
            charBudget == ret.out.Budget * 4
            row(i) == RowOfEntry(ms[i])
            left == {c \in Candidates : \A i \in 1..n : ms[i].id # c.id}
            used == UsedBefore(ms, n + 1)
        IN  /\ \A i \in 1..n : row(i) \in Candidates
            /\ \A i, j \in 1..n : i < j => /\ Score(row(i)) >= Score(row(j))
                                            /\ ms[i].id # ms[j].id
            /\ \A i \in 1..n : \A c \in left : Score(row(i)) >= Score(c)
            /\ \A i \in 1..n :
                  IF ms[i].Excerpt
                  THEN /\ i = n
                       /\ charBudget - UsedBefore(ms, i) >= 100
                       /\ Len(row(i).content) > charBudget - UsedBefore(ms, i)
                       /\ ms[i].Content =
                             Take(row(i).content, charBudget - UsedBefore(ms, i))
                               \o <<".", ".", ".">>
                  ELSE /\ ms[i].Content = row(i).content
                       /\ UsedBefore(ms, i) + Len(ms[i].Content) <= charBudget
            /\ (left # {} /\ (n = 0 \/ ~ms[n].Excerpt)) =>
                  \E c \in left :
                      /\ \A d \in left : Score(c) >= Score(d)
                      /\ used + Len(c.content) > charBudget
                      /\ charBudget - used < 100

\* two candidates, the better one whole and the other as the final excerpt
C20_Witness ==
    /\ ContextReturned
    /\ Len(ret.out.Memories) = 2
    /\ ~ret.out.Memories[1].Excerpt
    /\ ret.out.Memories[2].Excerpt
    /\ Score(RowOfEntry(ret.out.Memories[1])) > Score(RowOfEntry(ret.out.Memories[2]))

(***************************************************************************)
(* Chunk as a call: every short text over a small alphabet under small and *)
(* default options, and three long texts under the default options.        *)
(***************************************************************************)
MaxChunkLen == 7

ChunkAlphabet == {"a", " ", "\n", "#"}

ShortTexts == UNION {[1..k -> ChunkAlphabet] : k \in 0..MaxChunkLen}

\* two heading sections that merge and a third that does not
TextHeadings ==
    Rep("a", 250) \o <<"\n", "#">> \o Rep("a", 100) \o <<"\n", "#">> \o Rep("a", 300)

\* one line longer than the default maxSize
TextOneLine == Rep("a", 700)

\* eight lines of 100 characters, no heading or blank line
TextEightLines ==
    Rep("a", 100) \o <<"\n">> \o Rep("a", 100) \o <<"\n">> \o Rep("a", 100)
      \o <<"\n">> \o Rep("a", 100) \o <<"\n">> \o Rep("a", 100) \o <<"\n">>
      \o Rep("a", 100) \o <<"\n">> \o Rep("a", 100) \o <<"\n">> \o Rep("a", 100)

LongTexts == {TextHeadings, TextOneLine, TextEightLines}

Options(target, min, max) == [TargetSize |-> target, MinSize |-> min, MaxSize |-> max]

\* TargetSize 0 stands for the default options
SmallOptions == {Options(0, 0, 0), Options(2, 1, 3), Options(5, 1, 6)}

ChunkInputs ==
    {[text |-> t, opts |-> o] : t \in ShortTexts, o \in SmallOptions}
      \cup {[text |-> t, opts |-> DefaultOptions] : t \in LongTexts}

\* Chunk keeps nothing from call to call, so a behaviour makes one call
DoChunk ==
    /\ ret = NoRet
    /\ \E p \in ChunkInputs :
          /\ ret' = Ret("Chunk", p, FALSE, Chunk(p.text, p.opts))
          /\ UNCHANGED <<memories, chunks, memory_links, nextID, now, nputs, hist, keepRet, pending>>

NextChunk == DoChunk

SpecChunk == Init /\ [][NextChunk]_vars

ChunkReturned == ret.op = "Chunk"

\* the options the call works with
EffOptions(o) == IF o.TargetSize = 0 THEN DefaultOptions ELSE o

\* C21: for every content whose length is <= maxSize, Chunk returns exactly
\* one segment, whose text is the trimmed input, with start_line 1 and
\* end_line the number of lines of the trimmed input; empty or
\* whitespace-only content yields no segment.
C21_ShortContentOneSegment ==
    ChunkReturned =>
        LET text == ret.p.text
            blank == \A i \in 1..Len(text) : text[i] \in {" ", "\n", "\t"}
        IN  /\ blank => ret.out = <<>>
            /\ (~blank /\ Len(text) <= EffOptions(ret.p.opts).MaxSize) =>
                  /\ Len(ret.out) = 1
                  /\ ret.out[1].Text = TrimSpace(text)
                  /\ ret.out[1].StartLine = 1
                  /\ ret.out[1].EndLine = Len(SplitLines(TrimSpace(text)))

\* a text of three lines within maxSize, given with blanks around it
C21_Witness ==
    /\ ChunkReturned
    /\ ret.p.opts.MaxSize = 6
    /\ ret.p.text = <<" ", "a", "\n", "#", "\n", "a">>
    /\ ret.out = <<ChunkResult(<<"a", "\n", "#", "\n", "a">>, 1, 3)>>

\* the lines segment c spans
Span(c) == c.StartLine..c.EndLine

\* C22: the line spans of the segments Chunk returns, in sequence order, are
\* non-empty, pairwise disjoint and strictly increasing, lie inside the line
\* range of the content and together cover it.  (The range taken is that of
\* the trimmed content, which is the text the line numbers count from.)
C22_SpansCoverLines ==
    ChunkReturned =>
        LET out == ret.out
            n == Len(SplitLines(TrimSpace(ret.p.text)))
        IN  /\ \A i \in 1..Len(out) :
                  /\ out[i].StartLine <= out[i].EndLine
                  /\ Span(out[i]) \subseteq 1..n
            /\ \A i, j \in 1..Len(out) : i < j => out[i].EndLine < out[j].StartLine
            /\ (out # <<>>) => UNION {Span(out[i]) : i \in 1..Len(out)} = 1..n

\* the disjointness part of C22 on the three heading sections under the
\* default options
C22_HeadingsDisjoint ==
    (ChunkReturned /\ ret.p.text = TextHeadings) =>
        \A i, j \in 1..Len(ret.out) : i < j => ret.out[i].EndLine < ret.out[j].StartLine

IsNonBlank(l) == l # <<>>

\* the lines of t that are not blank, each without the blanks around it
NonBlankLines(t) ==
    LET ls == SplitLines(t)
    IN  SelectSeq([i \in 1..Len(ls) |-> TrimSpace(ls[i])], IsNonBlank)

\* the non-blank lines of the segments, in sequence order
RECURSIVE SegmentLines(_)
SegmentLines(out) ==
    IF out = <<>> THEN <<>>
    ELSE NonBlankLines(out[1].Text) \o SegmentLines(Tail(out))

\* C23: with targetSize <= maxSize, every segment Chunk returns is made of
\* whole lines of the input, no line being split between two segments (the
\* non-blank lines of the segments, in order, are the non-blank lines of
\* the input), and a segment is longer than maxSize only if it is a single
\* line.
C23_WholeLines ==
    (ChunkReturned
       /\ EffOptions(ret.p.opts).TargetSize <= EffOptions(ret.p.opts).MaxSize) =>
        /\ SegmentLines(ret.out) = NonBlankLines(ret.p.text)
        /\ \A i \in 1..Len(ret.out) :
              Len(ret.out[i].Text) > EffOptions(ret.p.opts).MaxSize =>
                  Len(SplitLines(ret.out[i].Text)) = 1

\* a short line and a line longer than maxSize: two segments, the long line
\* whole in its own
C23_Witness ==
    /\ ChunkReturned
    /\ Len(ret.out) = 2
    /\ Len(ret.out[2].Text) > EffOptions(ret.p.opts).MaxSize
    /\ NonBlankLines(ret.p.text) = <<ret.out[1].Text, ret.out[2].Text>>

(***************************************************************************)
(* Properties of the reads after Put and Rm.                               *)
(***************************************************************************)
\* the rows are of distinct keys, each the non-deleted version of its key
\* with the highest version number
LatestOnePerKey(rows) ==
    /\ \A i, j \in 1..Len(rows) : i # j => SlotOf(rows[i]) # SlotOf(rows[j])
    /\ \A i \in 1..Len(rows) :
          /\ rows[i] \in memories
          /\ rows[i].deleted_at = NULL
          /\ \A r \in memories :
                (SlotOf(r) = SlotOf(rows[i]) /\ r.deleted_at = NULL /\ r # rows[i])
                    => r.version < rows[i].version

\* C24: after any sequence of Put and Rm, List and Search return at most
\* one record per (ns,key), and it is the non-deleted version of its key
\* with the highest version number; so a superseded version is never
\* returned, whatever its content matches.
C24_LatestVersionOnly ==
    /\ \A p \in ListInputs : \A rows \in ListRows(p) : LatestOnePerKey(rows)
    /\ \A p \in SearchInputs : \A e \in Envs : \A r \in Search(p, e) :
          LatestOnePerKey(RowsIn(r.out))

\* a key with two non-deleted versions, both matching the query: List and
\* Search return version 2 and not version 1
C24_Witness ==
    \E s \in Slots :
        /\ Cardinality(LiveOf(s[1], s[2])) = 2
        /\ \A m \in LiveOf(s[1], s[2]) : Contains(m.content, <<"a">>)
        /\ \E rows \in ListRows([NS |-> "", Kind |-> "", Tags |-> {}, Limit |-> 0]) :
              \E i \in 1..Len(rows) : SlotOf(rows[i]) = s /\ rows[i].version = 2
        /\ \E r \in Search(SearchParams("", <<"a">>, "", 0), NoFailure) :
              \E i \in 1..Len(r.out) :
                  SlotOf(r.out[i].m) = s /\ r.out[i].m.version = 2

\* the Gets on slot s, in every mode
GetsOn(s) == {p \in GetInputs : p.NS = s[1] /\ p.Key = s[2]}

\* C25: after a successful Rm with AllVersions, soft or hard, on a key, and
\* until the next Put to the key, Get for the key finds nothing in every
\* mode (default, explicit version, history).
C25_RmAllHidesKey ==
    \A s \in Slots :
        hist[s].last \in {"rm_all", "rm_hard_all"} =>
            \A p \in GetsOn(s) : GetRows(p) = {<<>>}

\* a key with two versions was soft-deleted whole: both rows are stored
\* still, and no Get returns them
C25_Witness ==
    \E s \in Slots :
        /\ hist[s].last = "rm_all"
        /\ hist[s].live = 2
        /\ Cardinality(RowsOf(s[1], s[2])) = 2
        /\ \A p \in GetsOn(s) : GetRows(p) = {<<>>}

(***************************************************************************)
(* The store under Put, Rm and Get in every mode.                          *)
(***************************************************************************)
NextGet == DoPut \/ DoRm \/ DoGet \/ Tick

SpecGet == Init /\ [][NextGet]_vars

\* C26: a successful Get without history returns the row as it was read and
\* then adds exactly one to the access_count of that row and changes no
\* other row (so the k-th such Get of an otherwise unchanged key reports
\* k-1); a Get with history and a Get that finds nothing leave every row,
\* and so every access_count, unchanged.
C26_GetCountsAccess ==
    [][(ret'.op = "Get" /\ (ret' # ret \/ memories' # memories)) =>
          IF ~ret'.err /\ ~ret'.p.History
          THEN /\ Len(ret'.out) = 1
               /\ ret'.out[1] \in memories
               /\ memories' = (memories \ {ret'.out[1]})
                                \cup {[ret'.out[1] EXCEPT !.access_count = @ + 1]}
          ELSE memories' = memories]_vars

\* the second Get of a key reports access_count 1 and leaves it at 2
C26_Witness ==
    /\ ret.op = "Get" /\ ~ret.err /\ ~ret.p.History
    /\ ret.out[1].access_count = 1
    /\ \E m \in memories : m.id = ret.out[1].id /\ m.access_count = 2

(***************************************************************************)
(* The store under Put, Rm and Link with the clock running, so that a      *)
(* link made again would carry a later created_at.                         *)
(***************************************************************************)
NextLinkClock == DoPut \/ DoRm \/ DoLink \/ Tick

SpecLinkClock == Init /\ [][NextLinkClock]_vars

\* the links between the same two records with the same relation as l
SameLink(l) ==
    {k \in memory_links :
        k.from_id = l.from_id /\ k.to_id = l.to_id /\ k.rel = l.rel}

\* C27: links form a set keyed by (from_id, to_id, rel): no two stored links
\* share the key; after a Link call that creates a relation there is
\* exactly one such link, also when it was there before; after one that
\* removes it there is none; and GetLinks(id) returns exactly the stored
\* links with id as source or target, each once.
C27_LinksAreASet ==
    /\ \A l \in memory_links : SameLink(l) = {l}
    /\ (ret.op = "Link" /\ ~ret.err) =>
          Cardinality(SameLink(ret.out[1])) = IF ret.p.Remove THEN 0 ELSE 1
    /\ \A m \in memories :
          /\ GetLinks(m.id) \subseteq memory_links
          /\ \A l \in memory_links :
                l \in GetLinks(m.id) <=> (l.from_id = m.id \/ l.to_id = m.id)

\* the relation is created a second time, a second later: the call
\* succeeds and the one link of the first call is what is stored
C27_Witness ==
    /\ ret.op = "Link" /\ ~ret.err /\ ~ret.p.Remove
    /\ \E l \in SameLink(ret.out[1]) : l.created_at < ret.out[1].created_at
    /\ GetLinks(ret.out[1].from_id) = SameLink(ret.out[1])

(***************************************************************************)
(* ExportAll and Import.  Import calls Put once per exported memory; the   *)
(* loop is taken as one step on the store st = [memories, chunks, nextID]. *)
(***************************************************************************)
\* ORDER BY ns, key: the place of the model's two slots in that order
SlotRank(ns, key) == IF ns = "o" THEN 1 ELSE 2

\* ExportAll: the non-deleted rows, of namespace ns if given,
\* ORDER BY ns, key, version
ExportAll(ns) ==
    LET S == {m \in memories : m.deleted_at = NULL /\ (ns # "" => m.ns = ns)}
    IN  CHOOSE o \in OrdersDesc(S, [m \in S |->
                        0 - (SlotRank(m.ns, m.key) * (MaxPuts + 2) * 2 + m.version)]) : TRUE

\* the Put of Import's loop body, on the store st
ImportPut(st, m) ==
    LET p == PutParams(m.ns, m.key, m.content, m.kind, m.tags, m.priority, "")
        live == {r \in st.memories : r.ns = p.NS /\ r.key = p.Key /\ r.deleted_at = NULL}
        prev == {r \in live : \A q \in live : q.version <= r.version}
        prevRow == CHOOSE r \in prev : TRUE
        id == st.nextID
        row == [id |-> id, ns |-> p.NS, key |-> p.Key, content |-> p.Content,
                kind |-> IF p.Kind = "" THEN "semantic" ELSE p.Kind,
                tags |-> p.Tags,
                version |-> IF prev # {} THEN prevRow.version + 1 ELSE 1,
                supersedes |-> IF prev # {} THEN prevRow.id ELSE NULL,
                created_at |-> now,
                deleted_at |-> NULL,
                priority |-> IF p.Priority = "" THEN "normal" ELSE p.Priority,
                access_count |-> 0,
                expires_at |-> NULL]
        cs == PutChunks(p, id)
    IN  [memories |-> st.memories \cup {row},
         chunks |-> st.chunks \cup cs,
         nextID |-> id + 1 + Cardinality(cs),
         imported |-> st.imported + 1]

RECURSIVE ImportLoop(_, _)
ImportLoop(ms, st) ==
    IF ms = <<>> THEN st ELSE ImportLoop(Tail(ms), ImportPut(st, ms[1]))

\* Import(ms); the history kept for the properties of Put and Rm is not
\* continued by it
Import(ms) ==
    LET st == ImportLoop(ms, [memories |-> memories, chunks |-> chunks,
                              nextID |-> nextID, imported |-> 0])
    IN  /\ memories' = st.memories
        /\ chunks' = st.chunks
        /\ nextID' = st.nextID
        /\ ret' = Ret("Import", ms, FALSE, <<st.imported>>)
        /\ UNCHANGED <<memory_links, now, nputs, hist, keepRet, pending>>

\* the store's own export is imported, while the ids handed out are those
\* of MaxPuts single-chunk Puts at most
DoImport ==
    /\ nextID <= 2 * MaxPuts + 1
    /\ \E ns \in {"", "t"} : Import(ExportAll(ns))

NextImport == DoPut \/ DoRm \/ DoImport

SpecImport == Init /\ [][NextImport]_vars

\* C28: Import skips every memory whose (ns, key, version) already exists
\* in the store: importing an export of memories that are all in the store
\* already adds no record and leaves the store as it was.
C28_ImportSkipsExisting ==
    [][(/\ ret'.op = "Import"
        /\ ret' # ret
        /\ \A i \in 1..Len(ret'.p) :
              \E m \in memories : /\ m.ns = ret'.p[i].ns
                                  /\ m.key = ret'.p[i].key
                                  /\ m.version = ret'.p[i].version)
          => (memories' = memories /\ chunks' = chunks)]_vars

\* C29: in every store state and for every (ns, key), Get without version
\* or history and List without filters agree: Get finds a record exactly
\* when List returns one for the key, and then both return the same
\* version, also when some versions of the key have expired.
C29_GetListAgree ==
    \A s \in Slots :
      \A g \in GetRows([NS |-> s[1], Key |-> s[2], History |-> FALSE, Version |-> 0]) :
        \A l \in ListRows([NS |-> "", Kind |-> "", Tags |-> {}, Limit |-> 0]) :
           LET listed == {l[i] : i \in {j \in 1..Len(l) :
                                          l[j].ns = s[1] /\ l[j].key = s[2]}}
           IN  /\ (g # <<>>) <=> (listed # {})
               /\ g # <<>> => \A m \in listed : m.version = g[1].version

(***************************************************************************)
(* Concurrent callers.  Put is one transaction and takes effect in one     *)
(* step.  Rm of the latest version is a SELECT of the id and then an       *)
(* UPDATE by id, with no transaction around them: other calls can run      *)
(* between the two.                                                        *)
(***************************************************************************)
MaxPending == 1

\* Rm, soft, latest version: SELECT id ... ORDER BY version DESC LIMIT 1
RmLookup(p) ==
    /\ Cardinality(pending) < MaxPending
    /\ IF LatestLive(p.NS, p.Key) = {}
       THEN /\ ret' = Ret("Rm", <<p.NS, p.Key>>, TRUE, <<>>)
            /\ UNCHANGED pending
       ELSE /\ \E m \in LatestLive(p.NS, p.Key) :
                  pending' = pending \cup {[NS |-> p.NS, Key |-> p.Key, id |-> m.id]}
            /\ UNCHANGED ret
    /\ UNCHANGED <<memories, chunks, memory_links, nextID, now, nputs, hist, keepRet>>

\* Rm, soft, latest version: UPDATE memories SET deleted_at = ? WHERE id = ?
RmUpdate(r) ==
    /\ memories' = {IF m.id = r.id THEN [m EXCEPT !.deleted_at = now] ELSE m :
                       m \in memories}
    /\ pending' = pending \ {r}
    /\ hist' = HistRm([NS |-> r.NS, Key |-> r.Key, AllVersions |-> FALSE, Hard |-> FALSE])
    /\ ret' = Ret("Rm", <<r.NS, r.Key>>, FALSE, <<>>)
    /\ UNCHANGED <<chunks, memory_links, nextID, now, nputs, keepRet>>

DoRmLookup == \E s \in Slots : RmLookup([NS |-> s[1], Key |-> s[2]])

DoRmUpdate == \E r \in pending : RmUpdate(r)

NextConcurrent == DoPut \/ DoRm \/ DoRmLookup \/ DoRmUpdate \/ Tick

SpecConcurrent == Init /\ [][NextConcurrent]_vars

\* no two non-deleted records of a key share a version number
LiveVersionsDistinct ==
    \A m1, m2 \in memories :
        (/\ m1.ns = m2.ns /\ m1.key = m2.key
         /\ m1.deleted_at = NULL /\ m2.deleted_at = NULL
         /\ m1.version = m2.version) => m1 = m2

\* the non-deleted records of (ns, key) whose supersedes target is soft-deleted
OverSoftDeleted(ns, key) ==
    {m \in LiveOf(ns, key) :
        \E t \in memories : t.id = m.supersedes /\ t.deleted_at # NULL}

\* C30: under any interleaving of concurrent Put and Rm calls on a key,
\* Rm being a lookup of the latest id and an update by id in two separate
\* statements, no two non-deleted records of the key share a version
\* number, and a successful soft Rm never leaves the key with a
\* non-deleted version whose supersedes target is soft-deleted.
C30_ConcurrentPutRm ==
    /\ LiveVersionsDistinct
    /\ \A s \in Slots :
          hist[s].last \in {"rm", "rm_all"} => OverSoftDeleted(s[1], s[2]) = {}

====
